---- MODULE Spec2Model ----
(***************************************************************************)
(* ChatLPU (src/app.py): a Streamlit page that fans one prompt out to the  *)
(* enabled Groq models, keeps the transcript in the session state and the  *)
(* settings in chatbot_config.json.                                        *)
(*                                                                         *)
(* Every user interaction re-executes main() from the top.  One action of  *)
(* this model is one interaction together with the script run (and the     *)
(* st.rerun() restart) it causes; the fan-out loop of a prompt submission  *)
(* is split into one step per get_model_response call, so that the order   *)
(* of the calls and the states in between are visible.                     *)
(*                                                                         *)
(* Python strings the program computes with character by character (the    *)
(* instruction text, the settings document) are sequences of one-character *)
(* strings.  A registry name or a JSON key holds no character that JSON    *)
(* escapes and no surrounding whitespace, and is carried as one unit.      *)
(***************************************************************************)
EXTENDS Integers, Sequences, FiniteSets, TLC

\* ------------------------------------------------------------------ bounds
\* How many entries of the registry (in its order) the model keeps.
NumModels == 2
\* Prompts are accepted while the transcript holds fewer than MaxTurns
\* user turns.
MaxTurns == 1
\* Longest instruction text typed into the text area in SpecStore.
MaxTextLen == 1

\* --------------------------------------------------------------- constants
Q  == "\""
BS == "\\"
NL == "\n"
SP == " "

\* src/app.py:22-28, as (display name, provider model id) in dict order.
\* A display name is a Python str: the sequence of its one unit.
ALL_MODELS ==
    << << <<"OpenAI GPT-OSS 120B">>,     "openai/gpt-oss-120b" >>,
       << <<"Llama 3.3 70B Versatile">>, "llama-3.3-70b-versatile" >>,
       << <<"DeepSeek R1 Distill 70B">>, "deepseek-r1-distill-llama-70b" >>,
       << <<"Kimi K2 Instruct">>,        "moonshotai/kimi-k2-instruct" >>,
       << <<"Qwen3 32B">>,               "qwen/qwen3-32b" >> >>

AVAILABLE_MODELS == SubSeq(ALL_MODELS, 1, NumModels)

\* list(AVAILABLE_MODELS.keys())
ModelNames == [i \in 1..Len(AVAILABLE_MODELS) |-> AVAILABLE_MODELS[i][1]]

NameSet == {ModelNames[i] : i \in 1..Len(ModelNames)}

\* AVAILABLE_MODELS[model_name]
ModelId(name) ==
    AVAILABLE_MODELS[CHOOSE i \in 1..Len(AVAILABLE_MODELS) :
                         AVAILABLE_MODELS[i][1] = name][2]

\* The literal of line 223, as characters ("You are a helpful AI assistant.").
DEFAULT_INSTRUCTIONS ==
    <<"Y","o","u"," ","a","r","e"," ","a"," ","h","e","l","p","f","u","l",
      " ","A","I"," ","a","s","s","i","s","t","a","n","t",".">>

\* os.getenv("GROQ_API_KEY") when the variable is not set.
NoKey == "None"

\* ------------------------------------------------------------ Python str
Whitespace == {SP, NL}

RECURSIVE lstrip(_)
lstrip(s) ==
    IF s # <<>> /\ Head(s) \in Whitespace THEN lstrip(Tail(s)) ELSE s

RECURSIVE rstrip(_)
rstrip(s) ==
    IF s # <<>> /\ s[Len(s)] \in Whitespace
    THEN rstrip(SubSeq(s, 1, Len(s) - 1))
    ELSE s

\* str.strip()
strip(s) == rstrip(lstrip(s))

RECURSIVE Concat(_)
Concat(ss) == IF ss = <<>> THEN <<>> ELSE Head(ss) \o Concat(Tail(ss))

\* ------------------------------------------------------------------ json
\* Mutant: the backslash is written as it is.
EscapeChar_RawBackslash(c) ==
    IF c = Q THEN <<BS, Q>>
    ELSE IF c = NL THEN <<BS, "n">>
    ELSE <<c>>

\* json.dump escapes the quote, the backslash and control characters.
EscapeChar(c) ==
    IF c = Q THEN <<BS, Q>>
    ELSE IF c = BS THEN <<BS, BS>>
    ELSE IF c = NL THEN <<BS, "n">>
    ELSE <<c>>

json_str(s) == <<Q>> \o Concat([i \in 1..Len(s) |-> EscapeChar(s[i])]) \o <<Q>>

\* A list of strings under indent=2 at nesting depth 1.
json_list(xs) ==
    IF xs = <<>> THEN <<"[", "]">>
    ELSE <<"[">>
         \o Concat([i \in 1..Len(xs) |->
                (IF i = 1 THEN <<>> ELSE <<",">>)
                \o <<NL, SP, SP, SP, SP>> \o json_str(xs[i])])
         \o <<NL, SP, SP, "]">>

\* json.dump(config, f, indent=2) for the dict built at lines 148-151.
json_dump(config) ==
    <<"{", NL, SP, SP>> \o json_str(<<"selected_models">>) \o <<":", SP>>
    \o json_list(config.selected_models)
    \o <<",", NL, SP, SP>> \o json_str(<<"custom_instructions">>) \o <<":", SP>>
    \o json_str(config.custom_instructions)
    \o <<NL, "}">>

ParseFail == [ok |-> FALSE, val |-> <<>>, next |-> 0]

\* F applied to the value of e, which is computed once.
Bind(e, F(_)) == CHOOSE y \in {F(x) : x \in {e}} : TRUE

RECURSIVE SkipWs(_, _)
SkipWs(d, i) ==
    IF i <= Len(d) /\ d[i] \in Whitespace THEN SkipWs(d, i + 1) ELSE i

\* The characters of a string literal, i just after its opening quote.
RECURSIVE ScanString(_, _, _)
ScanString(d, i, acc) ==
    IF i > Len(d) THEN ParseFail
    ELSE IF d[i] = Q THEN [ok |-> TRUE, val |-> acc, next |-> i + 1]
    ELSE IF d[i] = NL THEN ParseFail
    ELSE IF d[i] = BS THEN
        IF i + 1 > Len(d) THEN ParseFail
        ELSE IF d[i + 1] \in {Q, BS} THEN ScanString(d, i + 2, Append(acc, d[i + 1]))
        ELSE IF d[i + 1] = "n" THEN ScanString(d, i + 2, Append(acc, NL))
        ELSE ParseFail
    ELSE ScanString(d, i + 1, Append(acc, d[i]))

\* A string literal at or after i, with the position after it.
ParseString(d, i) ==
    Bind(SkipWs(d, i), LAMBDA j :
        IF j <= Len(d) /\ d[j] = Q THEN ScanString(d, j + 1, <<>>) ELSE ParseFail)

\* What follows a parsed item r: the position of the next character that is
\* no whitespace, or 0 when r failed or the document ends.
After(d, r) ==
    IF ~r.ok THEN 0
    ELSE Bind(SkipWs(d, r.next), LAMBDA k : IF k > Len(d) THEN 0 ELSE k)

\* The elements of a list after its "[" or a ",".
RECURSIVE ParseElems(_, _, _)
ParseElems(d, i, acc) ==
    Bind(ParseString(d, i), LAMBDA s :
    Bind(After(d, s), LAMBDA k :
        IF k = 0 THEN ParseFail
        ELSE IF d[k] = "," THEN ParseElems(d, k + 1, Append(acc, s.val))
        ELSE IF d[k] = "]"
             THEN [ok |-> TRUE, val |-> Append(acc, s.val), next |-> k + 1]
        ELSE ParseFail))

\* A value of the settings document: a string or a list of strings.
ParseValue(d, i) ==
    Bind(SkipWs(d, i), LAMBDA j :
        IF j > Len(d) THEN ParseFail
        ELSE IF d[j] = Q THEN ScanString(d, j + 1, <<>>)
        ELSE IF d[j] = "["
             THEN Bind(SkipWs(d, j + 1), LAMBDA k :
                      IF k <= Len(d) /\ d[k] = "]"
                      THEN [ok |-> TRUE, val |-> <<>>, next |-> k + 1]
                      ELSE ParseElems(d, j + 1, <<>>))
        ELSE ParseFail)

\* The members of an object after its "{" or a ",", as <<key, value>>.
RECURSIVE ParseMembers(_, _, _)
ParseMembers(d, i, acc) ==
    Bind(ParseString(d, i), LAMBDA key :
    Bind(After(d, key), LAMBDA c :
        IF c = 0 \/ d[c] # ":" THEN ParseFail
        ELSE Bind(ParseValue(d, c + 1), LAMBDA v :
             Bind(After(d, v), LAMBDA k :
                 IF k = 0 THEN ParseFail
                 ELSE IF d[k] = ","
                      THEN ParseMembers(d, k + 1,
                                        Append(acc, <<key.val, v.val>>))
                 ELSE IF d[k] = "}"
                      THEN [ok |-> TRUE,
                            val |-> Append(acc, <<key.val, v.val>>),
                            next |-> k + 1]
                 ELSE ParseFail))))

\* json.load(f): the parsed object, or ok = FALSE where json.load raises.
json_load(d) ==
    Bind(SkipWs(d, 1), LAMBDA j :
        IF j > Len(d) \/ d[j] # "{" THEN ParseFail
        ELSE Bind(SkipWs(d, j + 1), LAMBDA k :
             Bind(IF k <= Len(d) /\ d[k] = "}"
                  THEN [ok |-> TRUE, val |-> <<>>, next |-> k + 1]
                  ELSE ParseMembers(d, j + 1, <<>>), LAMBDA r :
                 IF r.ok /\ SkipWs(d, r.next) > Len(d) THEN r ELSE ParseFail)))

\* dict[key] on the parsed members (the last member of a key wins).
DictGet(members, key) ==
    LET I == {i \in 1..Len(members) : members[i][1] = key}
    IN  members[CHOOSE i \in I : \A j \in I : j <= i][2]

\* ------------------------------------------------------------- the store
CONFIG_KEYS == [selected_models |-> <<"selected_models">>,
                custom_instructions |-> <<"custom_instructions">>]

DefaultConfig ==
    [selected_models |-> ModelNames, custom_instructions |-> <<>>]

\* The settings file: absent, present but refused by open(), or its bytes.
AbsentFile     == [status |-> "absent",     content |-> <<>>]
UnreadableFile == [status |-> "unreadable", content |-> <<>>]
FileWith(doc)  == [status |-> "ok",         content |-> doc]

\* Instruction texts typed in Spec: empty, blank, and texts with a
\* visible character.
SessionTexts == {<<>>, <<SP>>, <<"a">>}

\* Instruction texts typed in SpecStore: made of the characters json.dump
\* escapes.
Alphabet == {Q, BS, NL}

Texts == UNION {[1..n -> Alphabet] : n \in 0..MaxTextLen}

\* Every document save_config can leave in the file within the bounds, and
\* json_load of each, computed once.
KnownConfigs ==
    {[selected_models |-> SelectSeq(ModelNames, LAMBDA m : m \in chk),
      custom_instructions |-> t] :
        chk \in SUBSET NameSet, t \in SessionTexts \cup Texts}

KnownDocs ==
    {<<>>} \cup UNION {{doc, SubSeq(doc, 1, Len(doc) - 1)} :
                          doc \in {json_dump(c) : c \in KnownConfigs}}

LoadTable == [d \in KnownDocs |-> json_load(d)]

\* Mutant: a file that does not parse gives an empty configuration.
load_config_EmptyOnParseError(f) ==
    IF f.status = "absent" THEN DefaultConfig
    ELSE IF f.status = "unreadable" THEN DefaultConfig
    ELSE Bind(json_load(f.content), LAMBDA r :
             IF r.ok
             THEN [selected_models |->
                       DictGet(r.val, CONFIG_KEYS.selected_models),
                   custom_instructions |->
                       DictGet(r.val, CONFIG_KEYS.custom_instructions)]
             ELSE [selected_models |-> <<>>, custom_instructions |-> <<>>])

\* load_config(): the two entries main() reads of the dict json.load returns.
load_config(f) ==
    IF f.status = "absent" THEN DefaultConfig
    ELSE IF f.status = "unreadable" THEN DefaultConfig
    ELSE Bind(IF f.content \in KnownDocs
              THEN LoadTable[f.content]
              ELSE json_load(f.content), LAMBDA r :
             IF r.ok
             THEN [selected_models |->
                       DictGet(r.val, CONFIG_KEYS.selected_models),
                   custom_instructions |->
                       DictGet(r.val, CONFIG_KEYS.custom_instructions)]
             ELSE DefaultConfig)

\* What open(CONFIG_FILE, 'w') and json.dump can do to the file:
\*   "ok"     the document is written in full;
\*   "open"   open() raises, the file is untouched;
\*   "empty"  open() has truncated the file and the write raises before
\*            anything reaches it;
\*   "short"  the write raises when all but the end of the document has
\*            reached the file.
\* A file that refuses open() refuses it for writing too.
save_config(f, config, outcome) ==
    IF f.status = "unreadable" \/ outcome = "open"
    THEN [ok |-> FALSE, file |-> f]
    ELSE IF outcome = "empty"
    THEN [ok |-> FALSE, file |-> FileWith(<<>>)]
    ELSE Bind(json_dump(config), LAMBDA doc :
             IF outcome = "short"
             THEN [ok |-> FALSE,
                   file |-> FileWith(SubSeq(doc, 1, Len(doc) - 1))]
             ELSE [ok |-> TRUE, file |-> FileWith(doc)])

\* ----------------------------------------------------------------- state
VARIABLES
    file,                \* chatbot_config.json
    api_key,             \* GROQ_API_KEY as os.getenv returns it
    checked,             \* session state of the checkboxes: the ticked names
    text,                \* session state of the text area
    text_default,        \* the value= the text area was last built with
    session_state,       \* [has |-> "messages" in st.session_state, messages]
    chat_input,          \* the last run rendered st.chat_input
    pc,                  \* "idle", or "fanout" inside the loop of line 214
    selected_models,     \* locals of the run that is inside the loop
    custom_instructions,
    prompt,
    responses,           \* dict, as <<key, value>> in insertion order
    calls                \* requests this run has sent to the provider

vars == <<file, api_key, checked, text, text_default, session_state,
          chat_input, pc, selected_models, custom_instructions, prompt,
          responses, calls>>

locals == <<selected_models, custom_instructions, prompt, responses, calls>>

\* st.chat_input returns None unless a prompt was just submitted.
NoPrompt == ""

Prompts == {"Hello"}

\* What a provider call can end in: a reply, or an exception.
CallOutcomes == {[ok |-> TRUE,  content |-> "reply", exc |-> ""],
                 [ok |-> FALSE, content |-> "",      exc |-> "timeout"]}

\* ---------------------------------------------------------------- main()
\* Mutant: the ticked names in the opposite order.
SelectedModels_Reversed(chk) ==
    LET sel == SelectSeq(ModelNames, LAMBDA m : m \in chk)
    IN  [i \in 1..Len(sel) |-> sel[Len(sel) + 1 - i]]

\* Lines 104-112: the ticked names, in the order of AVAILABLE_MODELS.keys().
SelectedModels(chk) == SelectSeq(ModelNames, LAMBDA m : m \in chk)

\* Lines 107-111 on the first run of a session, when no checkbox has state
\* yet: value= decides.
InitialChecked(config) ==
    {m \in NameSet :
        \E i \in 1..Len(config.selected_models) : config.selected_models[i] = m}

\* Lines 121-127.  The text area has no key: it is identified by its
\* arguments, so it keeps what was typed while value= stays the same and
\* starts again from value= when value= changes.
TextArea(value, last_value, typed) ==
    IF value = last_value THEN typed ELSE value

\* Mutant: the key is not deleted.
ClearMessages_Keep(ss) == ss

\* Lines 157-159.
ClearMessages(ss) == [has |-> FALSE, messages |-> <<>>]

\* Mutant: the check of line 172 is missing.
ChatSurface_KeyOnly(key, sel) == key # NoKey

\* Mutant: the check of line 165 is missing.
ChatSurface_ModelsOnly(key, sel) == sel # <<>>

\* Lines 165-174: the chat surface is reached.
ChatSurface(key, sel) == key # NoKey /\ sel # <<>>

\* Mutant: every run starts a new list.
InitHistory_Fresh(ss) == [has |-> TRUE, messages |-> <<>>]

\* Lines 176-181.
InitHistory(ss) == IF ss.has THEN ss ELSE [has |-> TRUE, messages |-> <<>>]

\* list.append
ListAppend(list, x) == Append(list, x)

\* Line 201.
UserTurn(p) == [role |-> "user", content |-> p]

\* Lines 236-240.
AssistantTurn(sel, resp) ==
    [role |-> "assistant",
     content |-> <<"Responses generated from ", Len(sel), " models">>,
     responses |-> resp]

\* Mutant: the text is tested without strip().
Instructions_NoStrip(ci) == IF ci # <<>> THEN ci ELSE DEFAULT_INSTRUCTIONS

\* Line 223.
Instructions(ci) == IF strip(ci) # <<>> THEN ci ELSE DEFAULT_INSTRUCTIONS

\* Lines 64-86: the reply, or the stringified exception.
get_model_response(model_id, messages, key, instructions, outcome) ==
    IF outcome.ok THEN <<outcome.content>> ELSE <<"Error: ", outcome.exc>>

\* The request of lines 78-82: the system message and the last message.
Request(model_id, messages, key, instructions) ==
    [model_id |-> model_id, system |-> instructions,
     human |-> messages[Len(messages)]]

\* Mutant: an error string is not stored.
DictSet_SkipErrors(d, key, value) ==
    IF value[1] = "Error: " THEN d ELSE Append(d, <<key, value>>)

\* responses[key] = value
DictSet(d, key, value) ==
    IF \E i \in 1..Len(d) : d[i][1] = key
    THEN [i \in 1..Len(d) |-> IF d[i][1] = key THEN <<key, value>> ELSE d[i]]
    ELSE Append(d, <<key, value>>)

\* One execution of main() in which no button is pressed, from line 92 to
\* line 201: the values it leaves, and whether it enters the fan-out.
Run(f, key, chk, typed, last_value, ss, p) ==
    Bind(load_config(f), LAMBDA config :
        LET sel    == SelectedModels(chk)
            ci     == TextArea(config.custom_instructions, last_value, typed)
            shown  == ChatSurface(key, sel)
            hist   == IF shown THEN InitHistory(ss) ELSE ss
            submit == shown /\ p # NoPrompt
        IN  [file |-> f,
             text |-> ci,
             text_default |-> config.custom_instructions,
             session_state |->
                 IF submit
                 THEN [hist EXCEPT !.messages = ListAppend(@, UserTurn(p))]
                 ELSE hist,
             chat_input |-> shown,
             fanout |-> submit,
             selected_models |-> sel,
             custom_instructions |-> ci])

\* Lines 147-155: the Save Config button.  A save that succeeds restarts the
\* script (st.rerun); one that fails lets this execution go on.
RunSave(f, key, chk, typed, last_value, ss, outcome) ==
    Bind(load_config(f), LAMBDA config :
    Bind(TextArea(config.custom_instructions, last_value, typed), LAMBDA ci :
    Bind(save_config(f, [selected_models |-> SelectedModels(chk),
                         custom_instructions |-> ci], outcome), LAMBDA saved :
        IF saved.ok
        THEN Run(saved.file, key, chk, ci, config.custom_instructions, ss,
                 NoPrompt)
        ELSE [Run(f, key, chk, typed, last_value, ss, NoPrompt)
                 EXCEPT !.file = saved.file])))

\* Lines 157-162: the Clear Chat button, then the restarted script.
RunClear(f, key, chk, typed, last_value, ss) ==
    Bind(load_config(f), LAMBDA config :
        Run(f, key, chk,
            TextArea(config.custom_instructions, last_value, typed),
            config.custom_instructions, ClearMessages(ss), NoPrompt))

\* The state a finished or started execution leaves behind.
Leave(r, p) ==
    /\ file' = r.file
    /\ text' = r.text
    /\ text_default' = r.text_default
    /\ session_state' = r.session_state
    /\ chat_input' = r.chat_input
    /\ pc' = IF r.fanout THEN "fanout" ELSE "idle"
    /\ selected_models' = IF r.fanout THEN r.selected_models ELSE <<>>
    /\ custom_instructions' = IF r.fanout THEN r.custom_instructions ELSE <<>>
    /\ prompt' = IF r.fanout THEN p ELSE NoPrompt
    /\ responses' = <<>>
    /\ calls' = <<>>
    /\ UNCHANGED api_key

\* -------------------------------------------------------------- actions
\* A checkbox is ticked or unticked.
Toggle(m) ==
    /\ pc = "idle"
    /\ LET chk == IF m \in checked THEN checked \ {m} ELSE checked \cup {m}
       IN  /\ checked' = chk
           /\ \E r \in {Run(file, api_key, chk, text, text_default,
                          session_state, NoPrompt)} : Leave(r, NoPrompt)

\* The instruction text is edited.
EditText(t) ==
    /\ pc = "idle"
    /\ t # text
    /\ UNCHANGED checked
    /\ \E r \in {Run(file, api_key, checked, t, text_default,
                   session_state, NoPrompt)} : Leave(r, NoPrompt)

SaveConfig(outcome) ==
    /\ pc = "idle"
    /\ UNCHANGED checked
    /\ \E r \in {RunSave(file, api_key, checked, text, text_default,
                       session_state, outcome)} : Leave(r, NoPrompt)

ClearChat ==
    /\ pc = "idle"
    /\ UNCHANGED checked
    /\ \E r \in {RunClear(file, api_key, checked, text, text_default,
                        session_state)} : Leave(r, NoPrompt)

\* Number of user turns in a transcript.
UserTurns(ms) ==
    Cardinality({i \in 1..Len(ms) : ms[i].role = "user"})

\* A prompt is typed into the chat input, which the page must show.
Submit(p) ==
    /\ pc = "idle"
    /\ chat_input
    /\ UserTurns(session_state.messages) < MaxTurns
    /\ UNCHANGED checked
    /\ \E r \in {Run(file, api_key, checked, text, text_default,
                   session_state, p)} : Leave(r, p)

\* One iteration of the loop of lines 214-225.
CallModel(outcome) ==
    /\ pc = "fanout"
    /\ Len(calls) < Len(selected_models)
    /\ LET model_name   == selected_models[Len(calls) + 1]
           model_id     == ModelId(model_name)
           instructions == Instructions(custom_instructions)
       IN  /\ calls' = Append(calls, Request(model_id, <<prompt>>, api_key,
                                             instructions))
           /\ responses' = DictSet(responses, model_name,
                              get_model_response(model_id, <<prompt>>,
                                                 api_key, instructions,
                                                 outcome))
    /\ UNCHANGED <<file, api_key, checked, text, text_default, session_state,
                   chat_input, pc, selected_models, custom_instructions,
                   prompt>>

\* Mutant: no assistant turn when every call failed.
FinishFanout_SkipsAllFailed ==
    /\ pc = "fanout"
    /\ Len(calls) = Len(selected_models)
    /\ session_state' =
           IF \A i \in 1..Len(responses) : responses[i][2][1] = "Error: "
           THEN session_state
           ELSE [session_state EXCEPT
                    !.messages = Append(@, AssistantTurn(selected_models,
                                                         responses))]
    /\ pc' = "idle"
    /\ selected_models' = <<>>
    /\ custom_instructions' = <<>>
    /\ prompt' = NoPrompt
    /\ responses' = <<>>
    /\ calls' = <<>>
    /\ UNCHANGED <<file, api_key, checked, text, text_default, chat_input>>

\* Lines 236-243: the loop is over, the assistant turn is appended.
FinishFanout ==
    /\ pc = "fanout"
    /\ Len(calls) = Len(selected_models)
    /\ session_state' =
           [session_state EXCEPT
               !.messages = ListAppend(@, AssistantTurn(selected_models,
                                                        responses))]
    /\ pc' = "idle"
    /\ selected_models' = <<>>
    /\ custom_instructions' = <<>>
    /\ prompt' = NoPrompt
    /\ responses' = <<>>
    /\ calls' = <<>>
    /\ UNCHANGED <<file, api_key, checked, text, text_default, chat_input>>

\* The environment: the settings file is removed or made unreadable, and a
\* .env file that load_dotenv() (line 12) reads on the next run gives the
\* key.
FsDelete ==
    /\ file.status # "absent"
    /\ file' = AbsentFile
    /\ UNCHANGED <<api_key, checked, text, text_default, session_state,
                   chat_input, pc, locals>>

FsLock ==
    /\ file.status = "ok"
    /\ file' = UnreadableFile
    /\ UNCHANGED <<api_key, checked, text, text_default, session_state,
                   chat_input, pc, locals>>

EnvSetKey ==
    /\ api_key = NoKey
    /\ api_key' = "gsk_key"
    /\ UNCHANGED <<file, checked, text, text_default, session_state,
                   chat_input, pc, locals>>

\* ------------------------------------------------------- specifications
Configs(texts) ==
    {[selected_models |-> SelectedModels(chk), custom_instructions |-> t] :
        chk \in SUBSET NameSet, t \in texts}

SaveOutcomes == {"ok", "open", "empty", "short"}

\* In Spec a save succeeds or fails at open().
SessionSaveOutcomes == {"ok", "open"}

\* The state after the first execution of main() of a session.
InitWith(texts, keys) ==
    /\ api_key \in keys
    /\ \E f \in {AbsentFile} \cup {FileWith(json_dump(c)) : c \in Configs(texts)} :
       \E config \in {load_config(f)} :
       \E chk \in {InitialChecked(config)} :
       \E r \in {Run(f, api_key, chk, config.custom_instructions,
                     config.custom_instructions,
                     [has |-> FALSE, messages |-> <<>>], NoPrompt)} :
           /\ file = r.file
           /\ checked = chk
           /\ text = r.text
           /\ text_default = r.text_default
           /\ session_state = r.session_state
           /\ chat_input = r.chat_input
    /\ pc = "idle"
    /\ selected_models = <<>>
    /\ custom_instructions = <<>>
    /\ prompt = NoPrompt
    /\ responses = <<>>
    /\ calls = <<>>

Init == InitWith(SessionTexts, {NoKey, "gsk_key"})

Next ==
    \/ \E m \in NameSet : Toggle(m)
    \/ \E t \in SessionTexts : EditText(t)
    \/ \E o \in SessionSaveOutcomes : SaveConfig(o)
    \/ ClearChat
    \/ \E p \in Prompts : Submit(p)
    \/ \E o \in CallOutcomes : CallModel(o)
    \/ FinishFanout
    \/ FsDelete
    \/ EnvSetKey

\* A session: the settings panel, the chat and the environment.
Spec == Init /\ [][Next]_vars

\* The settings store alone, without the key: every instruction text up to
\* MaxTextLen, every way a save can fail, a file that open() refuses.
InitStore == InitWith(Texts, {NoKey})

NextStore ==
    \/ \E m \in NameSet : Toggle(m)
    \/ \E t \in Texts : EditText(t)
    \/ \E o \in SaveOutcomes : SaveConfig(o)
    \/ FsDelete
    \/ FsLock

SpecStore == InitStore /\ [][NextStore]_vars

\* ------------------------------------------------- vocabulary of the claims
messages == session_state.messages

IsPrefix(a, b) == Len(a) <= Len(b) /\ SubSeq(b, 1, Len(a)) = a

\* This step appends one assistant turn to the transcript.
AssistantAppended ==
    /\ Len(messages') = Len(messages) + 1
    /\ IsPrefix(messages, messages')
    /\ messages'[Len(messages')].role = "assistant"

\* Position of a display name in the registry.
RegIndex(name) == CHOOSE i \in 1..Len(ALL_MODELS) : ALL_MODELS[i][1] = name

\* The ticked names in registry order, from the positions alone.
EnabledInOrder ==
    [k \in 1..Cardinality(checked) |->
        CHOOSE m \in checked :
            Cardinality({n \in checked : RegIndex(n) < RegIndex(m)}) = k - 1]

IsError(response) == response[1] = "Error: "

Blank(t) == \A i \in 1..Len(t) : t[i] \in Whitespace

AssistantTurns == {i \in 1..Len(messages) : messages[i].role = "assistant"}

\* ------------------------------------------------------------------ C1
\* C1: the assistant turn appended for a prompt has one `responses` entry
\* per model enabled at the submission, whatever calls failed: its keys are
\* exactly the ticked names (each once), and the entry of a call is the
\* reply or an "Error: " string according to what the call ended in.
C1_ResponsesKeysAreEnabledSet ==
    [][AssistantAppended =>
         LET resp == messages'[Len(messages')].responses
         IN  /\ {resp[i][1] : i \in 1..Len(resp)} = checked
             /\ Len(resp) = Cardinality(checked)
             /\ checked # {}
             /\ \A i \in 1..Len(resp) :
                    resp[i][2] \in {<<"reply">>, <<"Error: ", "timeout">>}]_vars

\* A finished turn that holds a failed and a successful entry.
C1_Witness ==
    \E t \in AssistantTurns :
        LET resp == messages[t].responses
        IN  /\ \E i \in 1..Len(resp) : IsError(resp[i][2])
            /\ \E i \in 1..Len(resp) : ~IsError(resp[i][2])

\* ------------------------------------------------------------------ C2
\* C2: while the settings file is absent, refused by open() or not
\* parseable, load_config() returns all registry names and the empty
\* instruction text.
Damaged(f) == f.status \in {"absent", "unreadable"} \/ ~json_load(f.content).ok

C2_DamagedFileLoadsDefault ==
    Damaged(file) =>
        load_config(file) = [selected_models |->
                                 [i \in 1..Len(AVAILABLE_MODELS) |->
                                     AVAILABLE_MODELS[i][1]],
                             custom_instructions |-> <<>>]

\* A file a failed write cut short, with a text area that was reset to the
\* default by the run that loaded it.
C2_Witness ==
    /\ file.status = "ok"
    /\ file.content # <<>>
    /\ ~json_load(file.content).ok
    /\ text_default = <<>>
    /\ checked # NameSet

\* ------------------------------------------------------------------ C3
\* C3: a Save Config whose save_config returns True leaves a file from which
\* load_config() returns exactly the saved configuration (the ticked names in
\* registry order and the instruction text of the run), whatever the file
\* held before.
SavedConfig ==
    [selected_models |-> EnabledInOrder,
     custom_instructions |->
         TextArea(load_config(file).custom_instructions, text_default, text)]

C3_SaveThenLoadRoundTrip ==
    [][(SaveConfig("ok") /\ file.status # "unreadable") =>
           load_config(file') = SavedConfig]_vars

\* A saved file that holds an earlier, different configuration with text
\* that JSON escapes, about to be overwritten.
C3_Witness ==
    /\ file.status = "ok"
    /\ json_load(file.content).ok
    /\ load_config(file).custom_instructions \in {<<Q>>, <<BS>>, <<NL>>}
    /\ text \in {<<Q>>, <<BS>>, <<NL>>}
    /\ load_config(file) # SavedConfig

\* ------------------------------------------------------------------ C4
\* C4: Clear Chat leaves a transcript of zero turns with no run in progress
\* and nothing of the fan-out kept, and from an empty transcript a step only
\* ever leads to an empty transcript or to the one user turn submitted by
\* that step.
C4_ClearEmptiesForGood ==
    [][/\ ClearChat =>
            /\ messages' = <<>>
            /\ pc' = "idle"
            /\ responses' = <<>>
       /\ messages = <<>> =>
            \/ messages' = <<>>
            \/ /\ prompt' \in Prompts
               /\ messages' = <<[role |-> "user", content |-> prompt']>>]_vars

\* A transcript with a finished round, on which Clear Chat can act.
C4_Witness ==
    /\ pc = "idle"
    /\ Len(messages) >= 2
    /\ ENABLED ClearChat

\* ------------------------------------------------------------------ C5
\* C5: with no model ticked the chat input is not shown, and a step from
\* such a state starts no fan-out, sends no request and appends no turn.
C5_NoModelsBlocksSubmission ==
    [][checked = {} =>
           /\ ~chat_input
           /\ pc = "idle"
           /\ pc' = "idle"
           /\ calls' = <<>>
           /\ messages' \in {messages, <<>>}]_vars

\* Every box was unticked after a round had been answered.
C5_Witness ==
    /\ checked = {}
    /\ api_key # NoKey
    /\ Len(messages) >= 2

\* ------------------------------------------------------------------ C6
\* C6: while GROQ_API_KEY is unset the chat input is not shown, no fan-out
\* runs, no request is sent and the transcript stays empty, whatever is
\* ticked.
C6_NoKeyNoPrompt ==
    [][(api_key = NoKey /\ api_key' = NoKey) =>
           /\ ~chat_input /\ ~chat_input'
           /\ pc = "idle" /\ pc' = "idle"
           /\ calls' = <<>>
           /\ messages' = <<>>]_vars

\* No key, every box ticked, and the settings panel has been used.
C6_Witness ==
    /\ api_key = NoKey
    /\ checked = NameSet
    /\ file.status = "ok"
    /\ text # text_default

\* ------------------------------------------------------------------ C7
\* C7: every request of a fan-out carries as system message the default
\* instruction string when the instruction text is empty or all whitespace,
\* and the instruction text itself otherwise.
C7_SystemMessage ==
    \A i \in 1..Len(calls) :
        calls[i].system =
            IF Blank(text)
            THEN <<"Y","o","u"," ","a","r","e"," ","a"," ","h","e","l","p",
                   "f","u","l"," ","A","I"," ","a","s","s","i","s","t","a",
                   "n","t",".">>
            ELSE text

\* A fan-out under whitespace-only instructions that has sent every request.
C7_Witness ==
    /\ text = <<SP>>
    /\ Len(calls) = Len(ModelNames)

\* ------------------------------------------------------------------ C8
\* C8: the requests of one fan-out go out one per enabled model in registry
\* order, each after the response of the one before is stored; the
\* assistant turn is appended only when all of them were made, failed or
\* not, and until then no user action is taken.
C8_FanoutInRegistryOrder ==
    [][/\ pc' = "fanout" =>
            /\ Len(calls') <= Cardinality(checked')
            /\ \A k \in 1..Len(calls') :
                   /\ calls'[k].model_id =
                          ALL_MODELS[RegIndex(EnabledInOrder'[k])][2]
                   /\ calls'[k].human = prompt'
            /\ Len(responses') = Len(calls')
       /\ pc = "fanout" =>
            \/ Len(calls') = Len(calls) + 1 /\ IsPrefix(calls, calls')
            \/ AssistantAppended
            \/ UNCHANGED <<checked, text, session_state, pc, locals>>
       /\ AssistantAppended =>
            /\ Len(calls) = Cardinality(checked)
            /\ [i \in 1..Len(responses) |-> responses[i][1]] = EnabledInOrder
            /\ messages'[Len(messages')].responses = responses]_vars

\* Every request was sent although the first call had failed.
C8_Witness ==
    /\ pc = "fanout"
    /\ Len(calls) = Len(ModelNames)
    /\ Len(calls) >= 2
    /\ IsError(responses[1][2])

Alternates(ms) ==
    \A i \in 1..Len(ms) :
        ms[i].role = IF i % 2 = 1 THEN "user" ELSE "assistant"

====
